---- MODULE Spec2Model ----
(***************************************************************************)
(* VectorScan glyph pipeline (clearscan-oss): box extraction, glyph        *)
(* aggregation, SVG path transcoding, Type 3 font assembly and the page    *)
(* overlay writer, modelled from the Python sources.                       *)
(*                                                                         *)
(* Conventions                                                             *)
(*  - a character is its codepoint ord(c), an integer;                     *)
(*  - a Python dict is a sequence of entries in insertion order;           *)
(*  - a float advance width is an integer number of 10^-5 glyph units, a   *)
(*    value rounded to 3 decimals an integer number of 10^-3 units, a      *)
(*    length in points an integer number of 10^-4 pt;                      *)
(*  - a content stream is a sequence of lines, a line a sequence of        *)
(*    whitespace separated tokens, every token a string.                   *)
(***************************************************************************)
EXTENDS Integers, Sequences, FiniteSets, TLC

VARIABLES
    pc,           \* where process stands
    ocr,          \* what the OCR backend returns for each page
    pages,        \* the PageInfo list
    glyphs,       \* the result of collect_glyphs
    cursor,       \* the index of the page or glyph loop
    vlog,         \* per glyph handled: representative, crop and tracer output
    failed,       \* the counter of glyphs that gave no path ops
    char_glyphs,  \* the font map {char: (adv, pdf_ops)}
    font,         \* the Type 3 font dictionary
    doc,          \* the pages of the pikepdf document
    saved,        \* whether the output PDF was written
    args,         \* the command line arguments of the job
    eng,          \* clearscan_engine.main: position and locals cmd, txt
    runs,         \* the ocrmypdf invocations made so far
    engine_exit,  \* the exit of the clearscan_engine process
    vs_exit,      \* the exit of the vectorscan_engine process
    out_exists,   \* whether the output PDF of the job exists
    deleted,      \* whether /api/delete removed the job directory
    status,       \* the payloads written to status.json, in order
    jpc,          \* where upload_pdf / run_job stand
    path_d,       \* the path data handed to the transcoder
    traced        \* what glyph_to_pdf_ops made of it

vars == <<pc, ocr, pages, glyphs, cursor, vlog, failed, char_glyphs, font,
          doc, saved, args, eng, runs, engine_exit, vs_exit, out_exists,
          deleted, status, jpc, path_d, traced>>

\* the state of process itself
procv == <<pc, ocr, pages, glyphs, cursor, vlog, failed, char_glyphs, font,
           doc, saved>>

\* the state of the fallback engine and of the web application
jobv == <<args, eng, runs, engine_exit, vs_exit, out_exists, deleted, status,
          jpc>>

\* the state of a transcoder call on its own
transv == <<path_d, traced>>

\* the locals of process that only the stages before the font touch
pipe == <<ocr, glyphs, cursor, vlog, failed>>

(* ------------------------------------------------------------------ *)
(* Bounds of the model                                                 *)
(* ------------------------------------------------------------------ *)
MaxGlyphs == 2
MaxBoxes == 2

(* ------------------------------------------------------------------ *)
(* Program constants                                                   *)
(* ------------------------------------------------------------------ *)
EM == 1000
DPI == 300

(* ------------------------------------------------------------------ *)
(* Generic helpers: sequences, dict updates, number formatting         *)
(* ------------------------------------------------------------------ *)
Range(s) == {s[i] : i \in DOMAIN s}

SetMin(S) == CHOOSE x \in S : \A y \in S : x <= y
SetMax(S) == CHOOSE x \in S : \A y \in S : x >= y

RECURSIVE Concat(_)
Concat(ss) == IF ss = <<>> THEN <<>> ELSE Head(ss) \o Concat(Tail(ss))

RECURSIVE Count(_, _)
Count(s, x) ==
    IF s = <<>> THEN 0
    ELSE (IF Head(s) = x THEN 1 ELSE 0) + Count(Tail(s), x)

EmptyDict == [k \in {} |-> 0]
Put(d, k, v) == [x \in (DOMAIN d) \cup {k} |-> IF x = k THEN v ELSE d[x]]

Digits == <<"0", "1", "2", "3", "4", "5", "6", "7",
            "8", "9", "A", "B", "C", "D", "E", "F">>

RECURSIVE Pow(_, _)
Pow(b, e) == IF e = 0 THEN 1 ELSE b * Pow(b, e - 1)

\* n >= 0 written in the given base, without padding
RECURSIVE NatStr(_, _)
NatStr(n, base) ==
    IF n < base THEN Digits[n + 1]
    ELSE NatStr(n \div base, base) \o Digits[(n % base) + 1]

\* n >= 0 written in the given base, zero-padded to at least w digits
RECURSIVE PadStr(_, _, _)
PadStr(n, base, w) ==
    IF w <= 1 THEN NatStr(n, base)
    ELSE IF n < Pow(base, w - 1) THEN "0" \o PadStr(n, base, w - 1)
    ELSE NatStr(n, base)

\* f"{v:.<d>f}" of a value v held as the integer n = v * 10^d
Fixed(n, d) ==
    LET a == IF n < 0 THEN -n ELSE n
    IN  (IF n < 0 THEN "-" ELSE "")
        \o NatStr(a \div Pow(10, d), 10) \o "." \o PadStr(a % Pow(10, d), 10, d)

(* ------------------------------------------------------------------ *)
(* type3_font.py                                                      *)
(* ------------------------------------------------------------------ *)
GLYPH_NAMES == <<
    "space", "exclam", "quotedbl", "numbersign", "dollar", "percent",
    "ampersand", "quotesingle", "parenleft", "parenright", "asterisk",
    "plus", "comma", "hyphen", "period", "slash", "zero", "one", "two",
    "three", "four", "five", "six", "seven", "eight", "nine", "colon",
    "semicolon", "less", "equal", "greater", "question", "at", "A", "B", "C",
    "D", "E", "F", "G", "H", "I", "J", "K", "L", "M", "N", "O", "P", "Q",
    "R", "S", "T", "U", "V", "W", "X", "Y", "Z", "bracketleft", "backslash",
    "bracketright", "asciicircum", "underscore", "grave", "a", "b", "c", "d",
    "e", "f", "g", "h", "i", "j", "k", "l", "m", "n", "o", "p", "q", "r",
    "s", "t", "u", "v", "w", "x", "y", "z", "braceleft", "bar", "braceright",
    "asciitilde" >>

\* glyph_name(char): the Adobe name of printable ASCII, uniXXXX otherwise
glyph_name(char) ==
    IF char >= 32 /\ char <= 126 THEN GLYPH_NAMES[char - 31]
    ELSE "uni" \o PadStr(char, 16, 4)

\* char_code(char): the byte used for the character
char_code(char) ==
    IF char <= 255 THEN char ELSE (char % 128) + 128

\* round(adv, 3): 10^-5 units to 10^-3 units
Round3(adv) == (adv + 50) \div 100

\* the glyph procedure: the d1 header line, then the path operators
GlyphStream(adv_w, path_ops) ==
    << <<Fixed(adv_w, 3), "0", "0", "0", Fixed(adv_w, 3),
         Fixed(EM * 1000, 3), "d1">> >> \o path_ops

\* the loop filling char_procs and widths, from entry k on
RECURSIVE FillProcs(_, _, _)
FillProcs(cg, k, acc) ==
    IF k > Len(cg) THEN acc
    ELSE LET code == char_code(cg[k].char)
             adv_w == Round3(cg[k].adv)
         IN  FillProcs(cg, k + 1,
                 [char_procs |-> Put(acc.char_procs, glyph_name(cg[k].char),
                                     GlyphStream(adv_w, cg[k].ops)),
                  widths |-> Put(acc.widths, code, adv_w)])

\* mutant: codes[0] taken without sorting
FirstCharOf_Unsorted(cg) == char_code(cg[1].char)

FirstCharOf(cg) == SetMin({char_code(cg[i].char) : i \in DOMAIN cg})
LastCharOf(cg) == SetMax({char_code(cg[i].char) : i \in DOMAIN cg})

\* widths_array: one entry per code of FirstChar..LastChar, 0.0 by default
WidthsArray(widths, first_char, last_char) ==
    [i \in 1..(last_char - first_char + 1) |->
        IF (first_char + i - 1) \in DOMAIN widths
        THEN widths[first_char + i - 1] ELSE 0]

\* the characters of the map whose code is `code`, in insertion order
Matching(cg, code) ==
    SelectSeq([i \in DOMAIN cg |-> cg[i].char],
              LAMBDA c : char_code(c) = code)

DiffInt(n) == [kind |-> "int", int |-> n, name |-> ""]
DiffName(n) == [kind |-> "name", int |-> 0, name |-> n]

\* the value of prev_code when the sweep reaches `code`: the last code
\* before it with a matching character, -1 (None) when there is none yet
PrevCode(cg, first_char, code) ==
    LET seen == {k \in first_char..(code - 1) : Matching(cg, k) # <<>>}
    IN  IF seen = {} THEN -1 ELSE SetMax(seen)

\* what one iteration of the sweep appends to differences
SweepStep(cg, first_char, code) ==
    LET matching == Matching(cg, code)
        prev_code == PrevCode(cg, first_char, code)
    IN  IF matching # <<>>
        THEN (IF prev_code = -1 \/ code # prev_code + 1
              THEN <<DiffInt(code)>> ELSE <<>>)
             \o <<DiffName(glyph_name(matching[1]))>>
        ELSE <<>>

\* the sweep over the codes lo..hi in ascending order (the range is halved
\* only to keep the evaluation shallow)
RECURSIVE Sweep(_, _, _, _)
Sweep(cg, first_char, lo, hi) ==
    IF lo > hi THEN <<>>
    ELSE IF lo = hi THEN SweepStep(cg, first_char, lo)
    ELSE LET mid == (lo + hi) \div 2
         IN  Sweep(cg, first_char, lo, mid) \o Sweep(cg, first_char, mid + 1, hi)

build_type3_font(cg) ==
    LET first_char == FirstCharOf(cg)
        last_char == LastCharOf(cg)
        filled == FillProcs(cg, 1, [char_procs |-> EmptyDict,
                                    widths |-> EmptyDict])
    IN  [FirstChar |-> first_char,
         LastChar |-> last_char,
         Widths |-> WidthsArray(filled.widths, first_char, last_char),
         Differences |-> Sweep(cg, first_char, first_char, last_char),
         CharProcs |-> filled.char_procs]

(* ------------------------------------------------------------------ *)
(* pdf_builder.py                                                     *)
(* ------------------------------------------------------------------ *)
\* mutant: integer division, px * 72 // DPI
_pt_FloorDiv(px) == ((px * 72) \div DPI) * 10000

\* _pt(px): pixels at 300 DPI to points (10^-4 pt)
_pt(px) == (px * 72 * 10000) \div DPI

\* _encode_char(char): the octal escape of the character's byte
_encode_char(char) == "\\" \o PadStr(char_code(char), 8, 3)

\* mutant: the membership test `char not in char_glyphs` left out
HasGlyph_Always(cg, char) == TRUE

HasGlyph(cg, char) == \E i \in DOMAIN cg : cg[i].char = char

\* the two lines _build_page_stream appends for one box
WhiteOutLine(x_pt, y_pt, w_pt, h_pt) ==
    <<"1", "g", Fixed(x_pt, 4), Fixed(y_pt, 4), Fixed(w_pt, 4),
      Fixed(h_pt, 4), "re", "f">>

GlyphDrawLine(font_name, char, x_pt, y_pt, h_pt) ==
    <<"0", "g", "BT", "/" \o font_name, Fixed(h_pt, 4), "Tf",
      "1", "0", "0", "1", Fixed(x_pt, 4), Fixed(y_pt, 4), "Tm",
      "(" \o _encode_char(char) \o ")", "Tj", "ET">>

\* the body of the loop over page.char_boxes, from box k on
RECURSIVE BoxLines(_, _, _, _)
BoxLines(page, cg, font_name, k) ==
    IF k > Len(page.char_boxes) THEN <<>>
    ELSE LET box == page.char_boxes[k]
             page_h_pt == _pt(page.height_px)
             x_pt == _pt(box.x1)
             y_pt == page_h_pt - _pt(box.y2)
             w_pt == _pt(box.x2 - box.x1)
             h_pt == _pt(box.y2 - box.y1)
             rest == BoxLines(page, cg, font_name, k + 1)
         IN  IF ~HasGlyph(cg, box.char) THEN rest
             ELSE IF w_pt <= 0 \/ h_pt <= 0 THEN rest
             ELSE << WhiteOutLine(x_pt, y_pt, w_pt, h_pt),
                     GlyphDrawLine(font_name, box.char, x_pt, y_pt, h_pt) >>
                  \o rest

_build_page_stream(page, cg, font_name) ==
    << <<"q">> >> \o BoxLines(page, cg, font_name, 1) \o << <<"Q">> >>

\* a page's /Contents: absent, one stream, or an array of streams
NoContents == [kind |-> "none", items |-> <<>>]
OneStream(s) == [kind |-> "stream", items |-> <<s>>]
StreamArray(ss) == [kind |-> "array", items |-> ss]

\* mutant: the overlay put before the existing content
AppendContents_Prepend(existing, overlay) ==
    IF existing.kind = "none" THEN [kind |-> "stream", items |-> <<overlay>>]
    ELSE [kind |-> "array", items |-> <<overlay>> \o existing.items]

\* "Append overlay to existing Contents"
AppendContents(existing, overlay) ==
    IF existing.kind = "none" THEN OneStream(overlay)
    ELSE IF existing.kind = "array"
    THEN StreamArray(Append(existing.items, overlay))
    ELSE StreamArray(<<existing.items[1], overlay>>)

\* a page's /Resources: absent, or a dictionary with some other entries
\* and, when has_font, a /Font dictionary from resource names to fonts
NoResources ==
    [present |-> FALSE, other |-> {}, has_font |-> FALSE, Font |-> EmptyDict]

\* "Register font resource"
RegisterFont(res, font_name, font_obj) ==
    LET r1 == IF ~res.present THEN [NoResources EXCEPT !.present = TRUE]
              ELSE res
        r2 == IF ~r1.has_font
              THEN [r1 EXCEPT !.has_font = TRUE, !.Font = EmptyDict]
              ELSE r1
    IN  [r2 EXCEPT !.Font = Put(r2.Font, font_name, font_obj)]

\* the body of the loop of overlay_type3_text for one page
OverlayPage(d, page_info, cg, font_obj, font_name) ==
    IF page_info.char_boxes = <<>> THEN d
    ELSE LET stream == _build_page_stream(page_info, cg, font_name)
             pdf_page == d[page_info.page_idx + 1]
         IN  IF Concat(stream) = <<>> THEN d
             ELSE [d EXCEPT ![page_info.page_idx + 1] =
                     [Contents |-> AppendContents(pdf_page.Contents, stream),
                      Resources |-> RegisterFont(pdf_page.Resources,
                                                 font_name, font_obj)]]

RECURSIVE OverlayFrom(_, _, _, _, _, _)
OverlayFrom(d, pgs, k, cg, font_obj, font_name) ==
    IF k > Len(pgs) THEN d
    ELSE OverlayFrom(OverlayPage(d, pgs[k], cg, font_obj, font_name),
                     pgs, k + 1, cg, font_obj, font_name)

overlay_type3_text(d, pgs, cg, font_obj, font_name) ==
    OverlayFrom(d, pgs, 1, cg, font_obj, font_name)

(* ------------------------------------------------------------------ *)
(* extractor.py                                                       *)
(* ------------------------------------------------------------------ *)
CharBox(char, x1, y1, x2, y2, page_idx) ==
    [char |-> char, x1 |-> x1, y1 |-> y1, x2 |-> x2, y2 |-> y2,
     page_idx |-> page_idx]

\* one line of image_to_boxes: "char x1 y1 x2 y2 page", bottom-left
\* origin; fields is len(line.split())
RawLine(char, x1, y1, x2, y2, fields) ==
    [char |-> char, x1 |-> x1, y1 |-> y1, x2 |-> x2, y2 |-> y2,
     fields |-> fields]

\* the codepoints str.strip() removes
Whitespace == {9, 10, 11, 12, 13, 28, 29, 30, 31, 32, 133, 160}

\* the loop of extract_char_boxes over the raw lines, from line k on
RECURSIVE ExtractLines(_, _, _)
ExtractLines(page, raw, k) ==
    IF k > Len(raw) THEN <<>>
    ELSE LET line == raw[k]
             h == page.height_px
             y1 == h - line.y2
             y2 == h - line.y1
             rest == ExtractLines(page, raw, k + 1)
         IN  IF line.fields < 5 THEN rest
             ELSE IF line.char \in Whitespace THEN rest
             ELSE IF line.x2 <= line.x1 \/ y2 <= y1 THEN rest
             ELSE <<CharBox(line.char, line.x1, y1, line.x2, y2,
                            page.page_idx)>> \o rest

\* extract_char_boxes(page): the new page.char_boxes
extract_char_boxes(page, raw) == ExtractLines(page, raw, 1)

Max(a, b) == IF a >= b THEN a ELSE b
Min(a, b) == IF a <= b THEN a ELSE b

\* crop_glyph(page, box): the size of the crop, clamped to the page
crop_glyph(page, box) ==
    [w |-> Max(0, Min(page.width_px, box.x2) - Max(0, box.x1)),
     h |-> Max(0, Min(page.height_px, box.y2) - Max(0, box.y1))]

\* glyphs.setdefault(box.char, []).append((page, box))
AddInstance(gl, page, box) ==
    IF \E i \in DOMAIN gl : gl[i].char = box.char
    THEN [i \in DOMAIN gl |->
             IF gl[i].char = box.char
             THEN [gl[i] EXCEPT !.instances =
                      Append(@, [page_idx |-> page.page_idx, box |-> box])]
             ELSE gl[i]]
    ELSE Append(gl, [char |-> box.char,
                     instances |-> <<[page_idx |-> page.page_idx,
                                      box |-> box]>>])

\* the boxes of all pages in the order collect_glyphs visits them
AllBoxes(pgs) ==
    Concat([i \in DOMAIN pgs |->
               [k \in DOMAIN pgs[i].char_boxes |->
                   [page |-> pgs[i], box |-> pgs[i].char_boxes[k]]]])

RECURSIVE CollectFrom(_, _, _)
CollectFrom(all, k, gl) ==
    IF k > Len(all) THEN gl
    ELSE CollectFrom(all, k + 1, AddInstance(gl, all[k].page, all[k].box))

\* collect_glyphs(pages): {char: [(page, box), ...]} in insertion order
collect_glyphs(pgs) == CollectFrom(AllBoxes(pgs), 1, <<>>)

Area(t) == (t.box.x2 - t.box.x1) * (t.box.y2 - t.box.y1)

\* pick_representative(instances): max() returns the first of the
\* instances whose key is maximal
pick_representative(instances) ==
    LET best == {i \in DOMAIN instances :
                    \A j \in DOMAIN instances :
                        Area(instances[i]) >= Area(instances[j])}
    IN  instances[SetMin(best)]

(* ------------------------------------------------------------------ *)
(* vectorizer.py                                                      *)
(* ------------------------------------------------------------------ *)
\* SVG path data is a sequence of lexemes: command letters and numbers
Cmd(c) == [k |-> "cmd", c |-> c, n |-> 0]
Num(n) == [k |-> "num", c |-> "", n |-> n]

CMDS == {"M", "m", "L", "l", "C", "c", "Q", "q", "Z", "z"}

\* re.findall of the tokeniser: the ten command letters and the numbers
\* are kept, every other character of d is passed over
Tokenise(d) == SelectSeq(d, LAMBDA t : t.k = "num" \/ t.c \in CMDS)

\* round(a / b) for b > 0
RoundDiv(a, b) ==
    IF a >= 0 THEN (2 * a + b) \div (2 * b)
    ELSE -((2 * (-a) + b) \div (2 * b))

\* fx(v), fy(v) for v = n / den: scale s = em / h_px, 4 decimals
fx(n, den, h_px, em) == Fixed(RoundDiv(n * em * 10000, den * h_px), 4)
fy(n, den, h_px, em) ==
    Fixed(RoundDiv((h_px * den - n) * em * 10000, den * h_px), 4)

\* cnt calls of num() from token idx on (1-based): float() of a command
\* letter raises ValueError, reading past the end raises IndexError
RECURSIVE ReadNums(_, _, _)
ReadNums(tokens, idx, cnt) ==
    IF cnt = 0 THEN [err |-> "", vals |-> <<>>]
    ELSE IF idx > Len(tokens) THEN [err |-> "IndexError", vals |-> <<>>]
    ELSE IF tokens[idx].k # "num" THEN [err |-> "ValueError", vals |-> <<>>]
    ELSE LET rest == ReadNums(tokens, idx + 1, cnt - 1)
         IN  [err |-> rest.err, vals |-> <<tokens[idx].n>> \o rest.vals]

\* the number of operands one group of a command reads
GroupSize(cmd) ==
    IF cmd \in {"C", "c"} THEN 6 ELSE IF cmd \in {"Q", "q"} THEN 4 ELSE 2

IsRelative(cmd) == cmd \in {"m", "l", "c", "q"}

\* the effect of one complete operand group v of cmd on the pen position
\* and the ops; op is "m" for the first pair of M/m and "l" for the others
ApplyGroup(cmd, op, v, st, h_px, em) ==
    LET bx == IF IsRelative(cmd) THEN st.cx ELSE 0
        by == IF IsRelative(cmd) THEN st.cy ELSE 0
    IN  IF cmd \in {"C", "c"}
        THEN [st EXCEPT
                !.idx = st.idx + 6, !.cx = bx + v[5], !.cy = by + v[6],
                !.ops = Append(st.ops,
                    <<fx(bx + v[1], 1, h_px, em), fy(by + v[2], 1, h_px, em),
                      fx(bx + v[3], 1, h_px, em), fy(by + v[4], 1, h_px, em),
                      fx(bx + v[5], 1, h_px, em), fy(by + v[6], 1, h_px, em),
                      "c">>)]
        ELSE IF cmd \in {"Q", "q"}
        THEN LET qx == bx + v[1]
                 qy == by + v[2]
                 x == bx + v[3]
                 y == by + v[4]
             IN  \* cp1 = P0 + 2/3 (Q - P0), cp2 = P1 + 2/3 (Q - P1)
                 [st EXCEPT
                    !.idx = st.idx + 4, !.cx = x, !.cy = y,
                    !.ops = Append(st.ops,
                        <<fx(st.cx + 2 * qx, 3, h_px, em),
                          fy(st.cy + 2 * qy, 3, h_px, em),
                          fx(x + 2 * qx, 3, h_px, em),
                          fy(y + 2 * qy, 3, h_px, em),
                          fx(x, 1, h_px, em), fy(y, 1, h_px, em), "c">>)]
        ELSE [st EXCEPT
                !.idx = st.idx + 2, !.cx = bx + v[1], !.cy = by + v[2],
                !.ops = Append(st.ops,
                    <<fx(bx + v[1], 1, h_px, em),
                      fy(by + v[2], 1, h_px, em), op>>)]

\* `while peek() and peek() not in CMDS`: operand groups as long as the
\* next token is a number
RECURSIVE Groups(_, _, _, _, _)
Groups(tokens, cmd, st, h_px, em) ==
    IF st.idx > Len(tokens) \/ tokens[st.idx].k # "num" THEN st
    ELSE LET r == ReadNums(tokens, st.idx, GroupSize(cmd))
         IN  IF r.err # "" THEN [st EXCEPT !.err = r.err]
             ELSE Groups(tokens, cmd,
                         ApplyGroup(cmd, "l", r.vals, st, h_px, em), h_px, em)

\* the main loop of _svg_path_to_pdf_ops from token st.idx on
RECURSIVE Transcode(_, _, _, _)
Transcode(tokens, st, h_px, em) ==
    IF st.err # "" \/ st.idx > Len(tokens) THEN st
    ELSE LET cmd == tokens[st.idx].c
             at == [st EXCEPT !.idx = st.idx + 1]
         IN  IF tokens[st.idx].k = "num" THEN Transcode(tokens, at, h_px, em)
             ELSE IF cmd \in {"M", "m"}
             THEN LET r == ReadNums(tokens, at.idx, 2)
                  IN  IF r.err # "" THEN [at EXCEPT !.err = r.err]
                      ELSE Transcode(tokens,
                               Groups(tokens, cmd,
                                      ApplyGroup(cmd, "m", r.vals, at, h_px, em),
                                      h_px, em),
                               h_px, em)
             ELSE IF cmd \in {"Z", "z"}
             THEN Transcode(tokens,
                            [at EXCEPT !.ops = Append(at.ops, <<"h">>)],
                            h_px, em)
             ELSE Transcode(tokens, Groups(tokens, cmd, at, h_px, em),
                            h_px, em)

\* _svg_path_to_pdf_ops(d, w_px, h_px, em): the ops lines, or the exception
_svg_path_to_pdf_ops(d, w_px, h_px, em) ==
    LET st == Transcode(Tokenise(d),
                        [idx |-> 1, cx |-> 0, cy |-> 0, ops |-> <<>>,
                         err |-> ""],
                        h_px, em)
    IN  [err |-> st.err, ops |-> st.ops]

\* What a tracer backend does on one glyph: "svg" with the d attributes
\* of its <path> elements, "none" (no output), or an exception it raises.
TraceSvg(paths) == [status |-> "svg", paths |-> paths]
TraceNone == [status |-> "none", paths |-> <<>>]
TraceRaises(exc) == [status |-> exc, paths |-> <<>>]

\* _svg_via_vtracer: every exception is swallowed
_svg_via_vtracer(trace) ==
    IF trace.vtracer.status = "svg" THEN trace.vtracer ELSE TraceNone

\* _svg_via_potrace: only FileNotFoundError is caught
_svg_via_potrace(trace) ==
    IF trace.potrace.status = "FileNotFoundError" THEN TraceNone
    ELSE trace.potrace

\* image_to_svg: _svg_via_vtracer(binary) or _svg_via_potrace(binary)
image_to_svg(trace) ==
    IF _svg_via_vtracer(trace).status = "svg" THEN _svg_via_vtracer(trace)
    ELSE _svg_via_potrace(trace)

\* the loop over path_ds from path k on: the non-empty ops of each path,
\* unless a path raises
RECURSIVE AllOps(_, _, _, _)
AllOps(path_ds, k, w_px, h_px) ==
    IF k > Len(path_ds) THEN [err |-> "", ops |-> <<>>]
    ELSE LET r == _svg_path_to_pdf_ops(path_ds[k], w_px, h_px, EM)
             rest == AllOps(path_ds, k + 1, w_px, h_px)
         IN  IF r.err # "" THEN r
             ELSE [err |-> rest.err, ops |-> r.ops \o rest.ops]

\* glyph_to_pdf_ops(img): err is the exception leaving the function, ops
\* the result, <<>> standing for None
glyph_to_pdf_ops(img, trace) ==
    LET svg == image_to_svg(trace)
        all == AllOps(svg.paths, 1, img.w, img.h)
    IN  IF img.w = 0 \/ img.h = 0 THEN [err |-> "", ops |-> <<>>]
        ELSE IF svg.status \notin {"svg", "none"}
        THEN [err |-> svg.status, ops |-> <<>>]
        ELSE IF svg.status = "none" \/ svg.paths = <<>>
        THEN [err |-> "", ops |-> <<>>]
        ELSE IF all.err # "" THEN [err |-> all.err, ops |-> <<>>]
        ELSE IF all.ops = <<>> THEN [err |-> "", ops |-> <<>>]
        ELSE [err |-> "", ops |-> all.ops \o << <<"f">> >>]

\* advance_width(w_px, h_px), in 10^-5 glyph units
advance_width(w_px, h_px) ==
    IF h_px = 0 THEN EM * 100000 ELSE (EM * 100000 * w_px) \div h_px

(* ------------------------------------------------------------------ *)
(* Inputs of the assembly stage                                        *)
(* ------------------------------------------------------------------ *)
\* H, A-acute and L-stroke: the last two fold to the same byte, 193
Chars == {72, 193, 321}

SamplePathOps == << <<"0.0000", "1000.0000", "m">>,
                    <<"250.0000", "0.0000", "l">>, <<"h">>, <<"f">> >>

\* the advance widths of crops of 2x3, 1x4 and 1x3 pixels, 10^-5 units
GlyphEntries ==
    { [char |-> 72, adv |-> advance_width(2, 3), ops |-> SamplePathOps],
      [char |-> 193, adv |-> advance_width(1, 4), ops |-> SamplePathOps],
      [char |-> 321, adv |-> advance_width(1, 3), ops |-> SamplePathOps] }

\* glyph maps: a dict has each key once
GlyphMaps ==
    {m \in UNION {[1..n -> GlyphEntries] : n \in 1..MaxGlyphs} :
        \A i, j \in DOMAIN m : i # j => m[i].char # m[j].char}

\* the rendered pages, before extraction
PageFrames ==
    << [page_idx |-> 0, width_px |-> 8, height_px |-> 10, char_boxes |-> <<>>],
       [page_idx |-> 1, width_px |-> 8, height_px |-> 12, char_boxes |-> <<>>] >>

\* boxes handed to the overlay writer: three regular ones, one of width 0
BoxSamples ==
    UNION {{CharBox(72, 1, 1, 3, 4, p), CharBox(193, 4, 2, 6, 5, p),
            CharBox(321, 1, 6, 2, 9, p), CharBox(72, 5, 5, 5, 8, p)} :
           p \in {0, 1}}

BoxLists == UNION {[1..n -> BoxSamples] : n \in 0..MaxBoxes}

\* the pages with the boxes of bs attached, each to the page it names
PagesWith(bs) ==
    [i \in DOMAIN PageFrames |->
        [PageFrames[i] EXCEPT !.char_boxes =
            SelectSeq(bs, LAMBDA b : b.page_idx = PageFrames[i].page_idx)]]

Scan(i) == << <<"q">>, <<"/Im" \o NatStr(i, 10), "Do">>, <<"Q">> >>

\* documents as opened by pikepdf, before the overlay
DocSamples ==
    { << [Contents |-> NoContents, Resources |-> NoResources],
         [Contents |-> OneStream(Scan(1)),
          Resources |-> [present |-> TRUE, other |-> {"XObject"},
                         has_font |-> FALSE, Font |-> EmptyDict]] >>,
      << [Contents |-> StreamArray(<<Scan(0), Scan(2)>>),
          Resources |-> [present |-> TRUE, other |-> {"XObject"},
                         has_font |-> TRUE,
                         Font |-> Put(EmptyDict, "F0", "font_F0")]],
         [Contents |-> OneStream(Scan(1)), Resources |-> NoResources] >> }

NoFont == [FirstChar |-> -1, LastChar |-> -1, Widths |-> <<>>,
           Differences |-> <<>>, CharProcs |-> EmptyDict]

(* ------------------------------------------------------------------ *)
(* Processes, command lines and their state before they start          *)
(* ------------------------------------------------------------------ *)
\* the exit of a process: not yet, or with an exit code
NotExited == [exited |-> FALSE, code |-> 0]
Exited(code) == [exited |-> TRUE, code |-> code]

\* the argparse defaults of both engines
DefaultArgs == [mode |-> "best", optimize |-> "3", force_ocr |-> FALSE]

\* an ocrmypdf command line: the options that vary between runs
OcrCmd(optimize, skip_text, best) ==
    [optimize |-> optimize, skip_text |-> skip_text, deskew |-> best,
     clean |-> best, rotate_pages |-> best]

\* clearscan_engine.main before it is started
EngineOff == [pc |-> "off", cmd |-> OcrCmd("3", FALSE, FALSE), txt |-> {}]

\* glyph_to_pdf_ops not called yet
NoResult == [err |-> "pending", ops |-> <<>>]

\* neither the fallback engine nor a job of the web application runs
JobIdle ==
    /\ args = DefaultArgs
    /\ eng = EngineOff
    /\ runs = <<>>
    /\ engine_exit = NotExited
    /\ vs_exit = NotExited
    /\ out_exists = FALSE
    /\ deleted = FALSE
    /\ status = <<>>
    /\ jpc = "idle"

TransIdle == path_d = <<>> /\ traced = NoResult

(* ------------------------------------------------------------------ *)
(* vectorscan_engine.py: process, from the font on                    *)
(* ------------------------------------------------------------------ *)
\* font_obj = type3_font.build_type3_font(char_glyphs, doc)
BuildFont ==
    /\ pc = "font"
    /\ char_glyphs # <<>>
    /\ font' = build_type3_font(char_glyphs)
    /\ pc' = "overlay"
    /\ UNCHANGED <<pipe, pages, char_glyphs, doc, saved>>
    /\ UNCHANGED <<jobv, transv>>

\* pdf_builder.overlay_type3_text(doc, pages, char_glyphs, font_obj)
OverlayText ==
    /\ pc = "overlay"
    /\ doc' = overlay_type3_text(doc, pages, char_glyphs, "font_obj", "VF1")
    /\ pc' = "save"
    /\ UNCHANGED <<pipe, pages, char_glyphs, font, saved>>
    /\ UNCHANGED <<jobv, transv>>

\* pdf_builder.save(doc, out)
Save ==
    /\ pc = "save"
    /\ saved' = TRUE
    /\ pc' = "done"
    /\ UNCHANGED <<pipe, pages, char_glyphs, font, doc>>
    /\ UNCHANGED <<jobv, transv>>

\* build_type3_font, overlay_type3_text and save on any glyph map, any
\* boxes and any of the sample documents
InitAssemble ==
    /\ pc = "font"
    /\ char_glyphs \in GlyphMaps
    /\ \E bs \in BoxLists : pages = PagesWith(bs)
    /\ doc \in DocSamples
    /\ font = NoFont
    /\ saved = FALSE
    /\ ocr = [i \in DOMAIN PageFrames |-> <<>>]
    /\ glyphs = <<>>
    /\ cursor = 1
    /\ vlog = <<>>
    /\ failed = 0
    /\ JobIdle
    /\ TransIdle

NextAssemble == BuildFont \/ OverlayText \/ Save

SpecAssemble == InitAssemble /\ [][NextAssemble]_vars

(* ------------------------------------------------------------------ *)
(* Inputs of a whole run: OCR output and tracer behaviour              *)
(* ------------------------------------------------------------------ *)
\* Lines the OCR backend may return for a page (A is 65, B is 66): two A
\* boxes of equal area 6, a B box, a line whose box is empty, and a B box
\* reaching past the right edge of the 8 pixel wide pages
RawSamples ==
    { RawLine(65, 1, 6, 3, 9, 6), RawLine(65, 4, 2, 7, 4, 6),
      RawLine(66, 0, 0, 1, 4, 6), RawLine(65, 2, 3, 2, 5, 6),
      RawLine(66, 6, 1, 10, 3, 6) }

TaggedRaw == [page_idx : {0, 1}, line : RawSamples]

\* what the OCR backend returns per page, MaxBoxes lines at most in all
OcrOutputs ==
    {[i \in DOMAIN PageFrames |->
         LET mine == SelectSeq(rs, LAMBDA r :
                                   r.page_idx = PageFrames[i].page_idx)
         IN  [k \in DOMAIN mine |-> mine[k].line]] :
     rs \in UNION {[1..n -> TaggedRaw] : n \in 0..MaxBoxes}}

\* path data a tracer may emit for a glyph
GoodPath == <<Cmd("M"), Num(0), Num(0), Cmd("L"), Num(2), Num(0),
              Num(2), Num(3), Cmd("Z")>>
RelPath == <<Cmd("m"), Num(0), Num(0), Num(2), Num(0), Cmd("l"), Num(0),
             Num(3), Cmd("z")>>
HVPath == <<Cmd("M"), Num(0), Num(0), Cmd("H"), Num(2), Cmd("V"), Num(3),
            Cmd("Z")>>
ArcPath == <<Cmd("M"), Num(0), Num(0), Cmd("L"), Num(2), Num(2), Cmd("A"),
             Num(1), Num(1), Num(0), Num(0), Num(1), Num(2), Num(3),
             Cmd("Z")>>
ShortPath == <<Cmd("M"), Num(0), Num(0), Cmd("L"), Num(2)>>
OnlyArcPath == <<Cmd("A"), Num(1), Num(1), Num(0), Num(0), Num(1), Num(2),
                 Num(2)>>

\* how the two backends may behave on one glyph
TraceOutcomes ==
    { [vtracer |-> TraceSvg(<<GoodPath>>), potrace |-> TraceNone],
      [vtracer |-> TraceRaises("RuntimeError"),
       potrace |-> TraceSvg(<<RelPath>>)],
      [vtracer |-> TraceRaises("ImportError"),
       potrace |-> TraceRaises("FileNotFoundError")],
      [vtracer |-> TraceRaises("ImportError"),
       potrace |-> TraceRaises("OSError")],
      [vtracer |-> TraceSvg(<<HVPath>>), potrace |-> TraceNone],
      [vtracer |-> TraceSvg(<<ArcPath>>), potrace |-> TraceNone],
      [vtracer |-> TraceSvg(<<ShortPath>>), potrace |-> TraceNone],
      [vtracer |-> TraceSvg(<<OnlyArcPath>>), potrace |-> TraceNone],
      [vtracer |-> TraceSvg(<<>>), potrace |-> TraceNone] }

(* ------------------------------------------------------------------ *)
(* vectorscan_engine.py: process, up to the font                      *)
(* ------------------------------------------------------------------ *)
\* extractor.extract_char_boxes(page, lang) for the next page
ExtractPage ==
    /\ pc = "extract"
    /\ pages' = [pages EXCEPT ![cursor].char_boxes =
                    extract_char_boxes(pages[cursor], ocr[cursor])]
    /\ IF cursor < Len(pages)
       THEN cursor' = cursor + 1 /\ pc' = "extract"
       ELSE cursor' = 1 /\ pc' = "collect"
    /\ UNCHANGED <<ocr, glyphs, vlog, failed, char_glyphs, font, doc, saved>>
    /\ UNCHANGED <<jobv, transv>>

\* glyphs = extractor.collect_glyphs(pages)
CollectGlyphs ==
    /\ pc = "collect"
    /\ glyphs' = collect_glyphs(pages)
    /\ cursor' = 1
    /\ pc' = IF collect_glyphs(pages) = <<>> THEN "font" ELSE "vectorise"
    /\ UNCHANGED <<ocr, pages, vlog, failed, char_glyphs, font, doc, saved>>
    /\ UNCHANGED <<jobv, transv>>

\* one iteration of the glyph loop; an exception leaving glyph_to_pdf_ops
\* is caught nowhere in process and ends the run
VectoriseGlyph ==
    /\ pc = "vectorise"
    /\ \E trace \in TraceOutcomes :
          LET char == glyphs[cursor].char
              rep == pick_representative(glyphs[cursor].instances)
              page == pages[rep.page_idx + 1]
              box == rep.box
              img == crop_glyph(page, box)
              w_px == box.x2 - box.x1
              h_px == box.y2 - box.y1
              pdf_ops == glyph_to_pdf_ops(img, trace)
          IN  /\ vlog' = Append(vlog, [char |-> char, rep |-> rep,
                                       img |-> img, trace |-> trace])
              /\ IF pdf_ops.err # ""
                 THEN /\ pc' = "crashed"
                      /\ UNCHANGED <<cursor, failed, char_glyphs>>
                 ELSE /\ IF pdf_ops.ops # <<>>
                         THEN /\ char_glyphs' =
                                    Append(char_glyphs,
                                           [char |-> char,
                                            adv |-> advance_width(w_px, h_px),
                                            ops |-> pdf_ops.ops])
                              /\ UNCHANGED failed
                         ELSE /\ failed' = failed + 1
                              /\ UNCHANGED char_glyphs
                      /\ cursor' = cursor + 1
                      /\ pc' = IF cursor < Len(glyphs) THEN "vectorise"
                               ELSE "font"
    /\ UNCHANGED <<ocr, pages, glyphs, font, doc, saved>>
    /\ UNCHANGED <<jobv, transv>>

\* "no glyphs vectorised - falling back to ocrmypdf"
Fallback ==
    /\ pc = "font"
    /\ char_glyphs = <<>>
    /\ pc' = "fallback"
    /\ UNCHANGED <<pipe, pages, char_glyphs, font, doc, saved>>
    /\ UNCHANGED <<jobv, transv>>

\* a run of process on one of the sample documents, after render_pages
Init ==
    /\ pc = "extract"
    /\ ocr \in OcrOutputs
    /\ pages = PageFrames
    /\ doc = << [Contents |-> OneStream(Scan(0)), Resources |-> NoResources],
                [Contents |-> OneStream(Scan(1)), Resources |-> NoResources] >>
    /\ glyphs = <<>>
    /\ cursor = 1
    /\ vlog = <<>>
    /\ failed = 0
    /\ char_glyphs = <<>>
    /\ font = NoFont
    /\ saved = FALSE
    /\ JobIdle
    /\ TransIdle

Next ==
    \/ ExtractPage
    \/ CollectGlyphs
    \/ VectoriseGlyph
    \/ Fallback
    \/ BuildFont
    \/ OverlayText
    \/ Save

Spec == Init /\ [][Next]_vars

(* ------------------------------------------------------------------ *)
(* clearscan_engine.py: main, the OCRmyPDF fallback                    *)
(* ------------------------------------------------------------------ *)
\* The captured output of ocrmypdf is the set of the fragments it holds
\* that the tests of main look at; str.lower() maps each to lower case
Lower(f) ==
    CASE f = "Unpaper" -> "unpaper"
      [] f = "Could not find program" -> "could not find program"
      [] OTHER -> f

\* `needle in lower` for lower = txt.lower()
InLower(needle, txt) == \E f \in txt : Lower(f) = needle

MissingPhrases ==
    {"was not found", "could not find program", "could not be executed"}

\* line 51: the condition for the retry without --clean
UnpaperMissing(cmd, txt) ==
    /\ cmd.clean
    /\ InLower("unpaper", txt)
    /\ \E ph \in MissingPhrases : InLower(ph, txt)

\* line 59: the condition for the retry with --optimize 1 ("--optimize" is
\* in every command line)
PngquantMissing(cmd, txt) ==
    /\ InLower("pngquant", txt)
    /\ \E ph \in MissingPhrases : InLower(ph, txt)

\* lines 36..43: the first command line
FirstCmd(a) == OcrCmd(a.optimize, ~a.force_ocr, a.mode = "best")

\* line 52: cmd2 = [c for c in cmd if c != "--clean"]
DropClean(cmd) == [cmd EXCEPT !.clean = FALSE]

\* a command line that puts the page cleaning back
SetOptimize1_Rebuilt(cmd) ==
    [cmd EXCEPT !.optimize = "1", !.clean = cmd.deskew]

\* lines 60..64: cmd3 is cmd with the value after --optimize set to "1"
SetOptimize1(cmd) == [cmd EXCEPT !.optimize = "1"]

\* what one ocrmypdf run may answer: exit code and captured output
ExitCodes == {0, 2, 3}

OutputTexts ==
    { {}, {"unpaper"},
      {"Unpaper", "Could not find program"},
      {"pngquant", "could not be executed"},
      {"unpaper", "pngquant", "was not found"} }

\* ocrmypdf cannot write its output once the job directory is gone
RunOutcomes ==
    {[rc |-> 0, txt |-> {}] : x \in IF deleted THEN {} ELSE {1}}
        \cup [rc : ExitCodes \ {0}, txt : OutputTexts]

\* what main does after the failed run at the given call site, with the
\* cmd and txt it holds then: the next call site, or "raise"
AfterFailure(site, cmd, txt) ==
    IF site = "first" /\ UnpaperMissing(cmd, txt) THEN "no_clean"
    ELSE IF site # "optimize" /\ PngquantMissing(cmd, txt) THEN "optimize"
    ELSE "raise"

\* one run_capture call at a call site with command line cmd, and the code
\* after it up to the next call: return (exit 0), the next call, or
\* `raise RuntimeError(txt)` (exit 1)
EngineRun(site, cmd) ==
    \E o \in RunOutcomes :
        /\ runs' = Append(runs, [site |-> site, cmd |-> cmd, rc |-> o.rc,
                                 txt |-> o.txt])
        /\ IF o.rc = 0
           THEN /\ eng' = [pc |-> "exited", cmd |-> cmd, txt |-> o.txt]
                /\ engine_exit' = Exited(0)
                /\ out_exists' = TRUE
           ELSE /\ out_exists' = out_exists
                /\ IF AfterFailure(site, cmd, o.txt) = "raise"
                   THEN /\ eng' = [pc |-> "exited", cmd |-> cmd,
                                   txt |-> o.txt]
                        /\ engine_exit' = Exited(1)
                   ELSE /\ eng' = [pc |-> AfterFailure(site, cmd, o.txt),
                                   cmd |-> cmd, txt |-> o.txt]
                        /\ engine_exit' = engine_exit

\* lines 36..46
EngineFirst ==
    /\ eng.pc = "first"
    /\ EngineRun("first", FirstCmd(args))
    /\ UNCHANGED <<procv, transv, args, vs_exit, deleted, status, jpc>>

\* lines 50..56
EngineRetryNoClean ==
    /\ eng.pc = "no_clean"
    /\ EngineRun("no_clean", DropClean(eng.cmd))
    /\ UNCHANGED <<procv, transv, args, vs_exit, deleted, status, jpc>>

\* lines 58..70
EngineRetryOptimize ==
    /\ eng.pc = "optimize"
    /\ EngineRun("optimize", SetOptimize1(eng.cmd))
    /\ UNCHANGED <<procv, transv, args, vs_exit, deleted, status, jpc>>

(* ------------------------------------------------------------------ *)
(* vectorscan_engine.py: _run_ocrmypdf_fallback                        *)
(* ------------------------------------------------------------------ *)
\* lines 30..42: the command line is built and the child started
SpawnEngine ==
    /\ pc = "fallback"
    /\ eng.pc = "off"
    /\ eng' = [eng EXCEPT !.pc = "first"]
    /\ pc' = "fallback_wait"
    /\ UNCHANGED <<pipe, pages, char_glyphs, font, doc, saved>>
    /\ UNCHANGED <<args, runs, engine_exit, vs_exit, out_exists, deleted,
                   status, jpc, transv>>

\* lines 42..44: subprocess.call returns rc; a non-zero rc raises
\* RuntimeError, which leaves process and main uncaught (exit 1);
\* otherwise process returns (exit 0)
FallbackReturn ==
    /\ pc = "fallback_wait"
    /\ engine_exit.exited
    /\ vs_exit' = Exited(IF engine_exit.code # 0 THEN 1 ELSE 0)
    /\ pc' = "exited"
    /\ UNCHANGED <<pipe, pages, char_glyphs, font, doc, saved>>
    /\ UNCHANGED <<args, eng, runs, engine_exit, out_exists, deleted, status,
                   jpc, transv>>

\* the job parameters that change what the fallback does
ArgSets == [mode : {"fast", "best"}, optimize : {"0", "1", "3"},
            force_ocr : BOOLEAN]

\* process at the hand-over to the fallback, the extractor having found no
\* box on any page
InitFallback ==
    /\ pc = "fallback"
    /\ ocr = [i \in DOMAIN PageFrames |-> <<>>]
    /\ pages = PageFrames
    /\ glyphs = <<>>
    /\ cursor = 1
    /\ vlog = <<>>
    /\ failed = 0
    /\ char_glyphs = <<>>
    /\ font = NoFont
    /\ doc \in DocSamples
    /\ saved = FALSE
    /\ args \in ArgSets
    /\ eng = EngineOff
    /\ runs = <<>>
    /\ engine_exit = NotExited
    /\ vs_exit = NotExited
    /\ out_exists = FALSE
    /\ deleted = FALSE
    /\ status = <<>>
    /\ jpc = "idle"
    /\ TransIdle

NextFallback ==
    \/ SpawnEngine
    \/ EngineFirst
    \/ EngineRetryNoClean
    \/ EngineRetryOptimize
    \/ FallbackReturn

SpecFallback == InitFallback /\ [][NextFallback]_vars

(* ------------------------------------------------------------------ *)
(* app/main.py: upload_pdf, run_job, delete                            *)
(* ------------------------------------------------------------------ *)
\* the payload write_status(p, state) writes, and the one with exit_code
StatusOf(state) == [state |-> state, has_code |-> FALSE, exit_code |-> 0]
StatusError(rc) == [state |-> "error", has_code |-> TRUE, exit_code |-> rc]

\* line 117: size_mb > MAX_UPLOAD_MB, sizes in MB
MAX_UPLOAD_MB == 500
TooLarge(size_mb) == size_mb > MAX_UPLOAD_MB

UploadSizes == {1, 501}

\* upload_pdf: an upload over the limit is answered 413 and creates no
\* job; otherwise the job is written as queued and its thread started
Upload ==
    /\ jpc = "idle"
    /\ \E size_mb \in UploadSizes :
          IF TooLarge(size_mb)
          THEN jpc' = "rejected" /\ status' = status
          ELSE jpc' = "queued" /\ status' = Append(status, StatusOf("queued"))
    /\ UNCHANGED <<procv, transv, args, eng, runs, engine_exit, vs_exit,
                   out_exists, deleted>>

\* run_job, lines 60..85: status running, then the engine child is started
RunJobStart ==
    /\ jpc = "queued"
    /\ status' = Append(status, StatusOf("running"))
    /\ eng' = [eng EXCEPT !.pc = "first"]
    /\ jpc' = "waiting"
    /\ UNCHANGED <<procv, transv, args, runs, engine_exit, vs_exit,
                   out_exists, deleted>>

\* a status that is done whatever the output
FinalStatus_IgnoreOutput(rc, exists) ==
    IF rc = 0 THEN StatusOf("done") ELSE StatusError(rc)

\* lines 88..100: the terminal payload
FinalStatus(rc, exists) ==
    IF rc = 0 /\ exists THEN StatusOf("done") ELSE StatusError(rc)

\* run_job, lines 86..100: proc.wait() has returned rc
RunJobFinish ==
    /\ jpc = "waiting"
    /\ engine_exit.exited
    /\ status' = Append(status, FinalStatus(engine_exit.code, out_exists))
    /\ jpc' = "finished"
    /\ UNCHANGED <<procv, transv, args, eng, runs, engine_exit, vs_exit,
                   out_exists, deleted>>

\* delete: shutil.rmtree of the job directory, output included
Delete ==
    /\ jpc \notin {"idle", "rejected"}
    /\ ~deleted
    /\ deleted' = TRUE
    /\ out_exists' = FALSE
    /\ UNCHANGED <<procv, transv, args, eng, runs, engine_exit, vs_exit,
                   status, jpc>>

\* an ocrmypdf run that never returns: run_capture blocks for good
EngineHangs ==
    /\ eng.pc \in {"first", "no_clean", "optimize"}
    /\ eng' = [eng EXCEPT !.pc = "hung"]
    /\ UNCHANGED <<procv, transv, args, runs, engine_exit, vs_exit,
                   out_exists, deleted, status, jpc>>

\* the web application before an upload; process is not part of a job
\* (ENGINE is clearscan_engine.py)
InitJob ==
    /\ pc = "off"
    /\ ocr = [i \in DOMAIN PageFrames |-> <<>>]
    /\ pages = PageFrames
    /\ glyphs = <<>>
    /\ cursor = 1
    /\ vlog = <<>>
    /\ failed = 0
    /\ char_glyphs = <<>>
    /\ font = NoFont
    /\ doc \in DocSamples
    /\ saved = FALSE
    /\ args \in ArgSets
    /\ eng = EngineOff
    /\ runs = <<>>
    /\ engine_exit = NotExited
    /\ vs_exit = NotExited
    /\ out_exists = FALSE
    /\ deleted = FALSE
    /\ status = <<>>
    /\ jpc = "idle"
    /\ TransIdle

NextJob ==
    \/ Upload
    \/ RunJobStart
    \/ EngineFirst
    \/ EngineRetryNoClean
    \/ EngineRetryOptimize
    \/ EngineHangs
    \/ RunJobFinish
    \/ Delete

SpecJob == InitJob /\ [][NextJob]_vars

\* the job thread and the engine process are scheduled; ocrmypdf is free to
\* hang, uploads and deletions are up to the user
FairSpecJob ==
    /\ SpecJob
    /\ WF_vars(RunJobStart)
    /\ WF_vars(RunJobFinish)
    /\ WF_vars(EngineFirst)
    /\ WF_vars(EngineRetryNoClean)
    /\ WF_vars(EngineRetryOptimize)

(* ------------------------------------------------------------------ *)
(* vectorizer.py: glyph_to_pdf_ops on path data of supported commands  *)
(* ------------------------------------------------------------------ *)
MaxSegs == 3

\* a command of the supported set with one complete operand group (M also
\* with an implicit lineto pair)
SegmentSamples ==
    { <<Cmd("M"), Num(0), Num(0)>>,
      <<Cmd("M"), Num(1), Num(1), Num(2), Num(1)>>,
      <<Cmd("m"), Num(1), Num(1)>>,
      <<Cmd("L"), Num(2), Num(0)>>,
      <<Cmd("l"), Num(0), Num(1)>>,
      <<Cmd("C"), Num(0), Num(1), Num(1), Num(2), Num(2), Num(2)>>,
      <<Cmd("c"), Num(1), Num(0), Num(1), Num(1), Num(0), Num(1)>>,
      <<Cmd("Q"), Num(1), Num(0), Num(2), Num(2)>>,
      <<Cmd("q"), Num(1), Num(1), Num(0), Num(2)>>,
      <<Cmd("Z")>>,
      <<Cmd("z")>> }

\* the d attribute of a path: up to MaxSegs such commands
PathData ==
    {Concat(ss) : ss \in UNION {[1..n -> SegmentSamples] : n \in 1..MaxSegs}}

\* the size of the crop the path was traced from
CropSample == [w |-> 2, h |-> 3]

\* pdf_ops = vectorizer.glyph_to_pdf_ops(img), vtracer having returned an
\* SVG with the one path
TranscodeGlyph ==
    /\ traced = NoResult
    /\ traced' = glyph_to_pdf_ops(CropSample,
                                  [vtracer |-> TraceSvg(<<path_d>>),
                                   potrace |-> TraceNone])
    /\ UNCHANGED <<procv, jobv, path_d>>

InitTranscode ==
    /\ pc = "off"
    /\ ocr = [i \in DOMAIN PageFrames |-> <<>>]
    /\ pages = PageFrames
    /\ glyphs = <<>>
    /\ cursor = 1
    /\ vlog = <<>>
    /\ failed = 0
    /\ char_glyphs = <<>>
    /\ font = NoFont
    /\ doc = <<>>
    /\ saved = FALSE
    /\ JobIdle
    /\ path_d \in PathData
    /\ traced = NoResult

NextTranscode == TranscodeGlyph

SpecTranscode == InitTranscode /\ [][NextTranscode]_vars

(* ------------------------------------------------------------------ *)
(* Reading a font and an overlay back, as a PDF consumer does          *)
(* ------------------------------------------------------------------ *)
FontBuilt == pc \in {"overlay", "save", "done"}
OverlayWritten == pc \in {"save", "done"}

Keys(cg) == {cg[i].char : i \in DOMAIN cg}

\* Encoding.Differences read per the PDF rules: an integer sets the next
\* code, each name takes the next code and advances it
RECURSIVE DecodeDifferences(_, _, _, _)
DecodeDifferences(diffs, k, next, acc) ==
    IF k > Len(diffs) THEN acc
    ELSE IF diffs[k].kind = "int"
    THEN DecodeDifferences(diffs, k + 1, diffs[k].int, acc)
    ELSE DecodeDifferences(diffs, k + 1, next + 1,
                           Put(acc, next, diffs[k].name))

DiffMap == DecodeDifferences(font.Differences, 1, 0, EmptyDict)

\* the wx operand of the d1 header of a glyph procedure
D1Advance(stream) == stream[1][1]

\* the string literal showing one byte by its octal escape
ShownByte(code) == "(\\" \o PadStr(code, 8, 3) \o ")"

\* px * 0.24 pt at 300 DPI, in 10^-4 pt
PtOf(px) == px * 2400

\* the overlay stream of a page that received one: the last of its Contents
OverlayOf(i) == doc[i].Contents.items[Len(doc[i].Contents.items)]

Drawable(box) ==
    /\ box.char \in Keys(char_glyphs)
    /\ box.x2 - box.x1 > 0
    /\ box.y2 - box.y1 > 0

DrawnBoxes(i) == SelectSeq(pages[i].char_boxes, Drawable)

(* ------------------------------------------------------------------ *)
(* Claims                                                              *)
(* ------------------------------------------------------------------ *)
\* C1: every glyph name listed in Encoding.Differences is a key of
\* CharProcs, and for every code c listed in Differences the entry
\* Widths[c - FirstChar] is non-zero and equals the advance width declared
\* in the d1 header of the glyph procedure Differences assigns to c.
C1_WidthsMatchD1 ==
    FontBuilt =>
        /\ \A k \in DOMAIN font.Differences :
              font.Differences[k].kind = "name"
                  => font.Differences[k].name \in DOMAIN font.CharProcs
        /\ \A c \in DOMAIN DiffMap :
              /\ c \in font.FirstChar..font.LastChar
              /\ font.Widths[c - font.FirstChar + 1] # 0
              /\ Fixed(font.Widths[c - font.FirstChar + 1], 3)
                     = D1Advance(font.CharProcs[DiffMap[c]])

\* C2: when two distinct codepoints a and b of the glyph map fold to the
\* same byte and a was inserted before b, both glyph names are distinct
\* keys of CharProcs and the Differences entry for that byte is the name
\* of the last writer, glyph_name(b).
C2_LastWriterWins ==
    FontBuilt =>
        \A i, j \in DOMAIN char_glyphs :
            (i < j /\ char_code(char_glyphs[i].char)
                          = char_code(char_glyphs[j].char))
            => LET a == char_glyphs[i].char
                   b == char_glyphs[j].char
               IN  /\ glyph_name(a) \in DOMAIN font.CharProcs
                   /\ glyph_name(b) \in DOMAIN font.CharProcs
                   /\ glyph_name(a) # glyph_name(b)
                   /\ char_code(b) \in DOMAIN DiffMap
                   /\ DiffMap[char_code(b)] = glyph_name(b)

\* C3: for every glyph draw the overlay emits for a box with codepoint c,
\* the byte in the octal escape is char_code(c) and the font maps that
\* byte in Encoding.Differences to glyph_name(c).
C3_DrawnGlyphIsOwn ==
    OverlayWritten =>
        \A i \in DOMAIN pages :
            pages[i].char_boxes # <<>> =>
                /\ Len(OverlayOf(i)) = 2 + 2 * Len(DrawnBoxes(i))
                /\ \A k \in DOMAIN DrawnBoxes(i) :
                      LET c == DrawnBoxes(i)[k].char
                          draw == OverlayOf(i)[2 * k + 1]
                      IN  /\ draw[14] = ShownByte(char_code(c))
                          /\ draw[15] = "Tj"
                          /\ char_code(c) \in DOMAIN DiffMap
                          /\ DiffMap[char_code(c)] = glyph_name(c)

\* C4: FirstChar is the smallest and LastChar the largest char_code of the
\* map, Widths has exactly LastChar - FirstChar + 1 entries, and every code
\* of the range to which no glyph of the map is assigned has width 0 and
\* does not appear in Encoding.Differences.
C4_WidthsCoverRange ==
    FontBuilt =>
        LET codes == {char_code(c) : c \in Keys(char_glyphs)}
        IN  /\ font.FirstChar \in codes
            /\ \A c \in codes : font.FirstChar <= c /\ c <= font.LastChar
            /\ font.LastChar \in codes
            /\ Len(font.Widths) = font.LastChar - font.FirstChar + 1
            /\ \A c \in (font.FirstChar..font.LastChar) \ codes :
                  /\ font.Widths[c - font.FirstChar + 1] = 0
                  /\ c \notin DOMAIN DiffMap

C4_Witness ==
    /\ FontBuilt
    /\ Len(font.Widths) > 2
    /\ \E c \in font.FirstChar..font.LastChar :
          /\ c \notin {char_code(x) : x \in Keys(char_glyphs)}
          /\ font.Widths[c - font.FirstChar + 1] = 0

\* the positions of a line holding the operator op
Ops(line, op) == {k \in DOMAIN line : line[k] = op}

\* C5: every overlay stream begins with the operator q and ends with Q,
\* holds as many q as Q and as many BT as ET, and every character code it
\* shows with Tj is the code of a codepoint that is a key of the glyph map.
C5_OverlayBalanced ==
    OverlayWritten =>
        \A i \in DOMAIN pages :
            pages[i].char_boxes # <<>> =>
                LET stream == OverlayOf(i)
                    toks == Concat(stream)
                IN  /\ toks[1] = "q"
                    /\ toks[Len(toks)] = "Q"
                    /\ Count(toks, "q") = Count(toks, "Q")
                    /\ Count(toks, "BT") = Count(toks, "ET")
                    /\ \A k \in Ops(toks, "Tj") :
                          /\ k > 1
                          /\ \E c \in Keys(char_glyphs) :
                                toks[k - 1] = ShownByte(char_code(c))

C5_Witness ==
    /\ OverlayWritten
    /\ \E i \in DOMAIN pages :
          /\ \E k \in DOMAIN pages[i].char_boxes :
                pages[i].char_boxes[k].char \notin Keys(char_glyphs)
          /\ Count(Concat(OverlayOf(i)), "Tj") = 1
          /\ Count(Concat(OverlayOf(i)), "BT") = 1

\* C6: between its opening q and closing Q the overlay stream of a page
\* holds, for each box whose codepoint is in the glyph map and whose width
\* and height are positive, one white rectangle at (pt(x1),
\* page_h_pt - pt(y2), pt(x2-x1), pt(y2-y1)) immediately followed by one
\* BT..ET glyph draw of font size pt(y2-y1) at the same origin, in the
\* insertion order of the boxes; the other boxes contribute no operators.
C6_RectThenGlyphPerBox ==
    OverlayWritten =>
        \A i \in DOMAIN pages :
            pages[i].char_boxes # <<>> =>
                LET stream == OverlayOf(i)
                    drawn == DrawnBoxes(i)
                IN  /\ Len(stream) = 2 + 2 * Len(drawn)
                    /\ stream[1] = <<"q">>
                    /\ stream[Len(stream)] = <<"Q">>
                    /\ \A k \in DOMAIN drawn :
                          LET b == drawn[k]
                              x == Fixed(PtOf(b.x1), 4)
                              y == Fixed(PtOf(pages[i].height_px)
                                         - PtOf(b.y2), 4)
                              w == Fixed(PtOf(b.x2 - b.x1), 4)
                              h == Fixed(PtOf(b.y2 - b.y1), 4)
                              rect == stream[2 * k]
                              draw == stream[2 * k + 1]
                          IN  /\ rect = <<"1", "g", x, y, w, h, "re", "f">>
                              /\ Ops(draw, "BT") = {3}
                              /\ Ops(draw, "ET") = {Len(draw)}
                              /\ Ops(draw, "Tf") = {6}
                              /\ draw[5] = h
                              /\ Ops(draw, "Tm") = {13}
                              /\ <<draw[11], draw[12]>> = <<x, y>>
                              /\ Ops(draw, "Tj") = {15}

C6_Witness ==
    /\ OverlayWritten
    /\ \E i \in DOMAIN pages :
          /\ Len(DrawnBoxes(i)) = 1
          /\ Len(pages[i].char_boxes) = 2
          /\ \E k \in DOMAIN pages[i].char_boxes :
                LET b == pages[i].char_boxes[k]
                IN  b.char \in Keys(char_glyphs) /\ b.x2 <= b.x1
          /\ Len(OverlayOf(i)) = 4

\* C7: overlay_type3_text changes a page only by appending one overlay
\* stream after all of the page's existing content streams, which keep
\* their order and content (a single stream is widened to an array), and by
\* registering the font under VF1; it does so exactly for the pages that
\* have at least one box, and a page without boxes keeps its Contents and
\* Resources.
OverlayFrame(i) ==
    IF pages[i].char_boxes = <<>> THEN doc'[i] = doc[i]
    ELSE LET old == doc[i]
             new == doc'[i]
         IN  /\ Len(new.Contents.items) = Len(old.Contents.items) + 1
             /\ SubSeq(new.Contents.items, 1, Len(old.Contents.items))
                    = old.Contents.items
             /\ new.Contents.items[Len(new.Contents.items)][1] = <<"q">>
             /\ old.Contents.kind # "none" => new.Contents.kind = "array"
             /\ old.Contents.kind = "none" => new.Contents.kind = "stream"
             /\ new.Resources.present
             /\ new.Resources.other = old.Resources.other
             /\ new.Resources.has_font
             /\ DOMAIN new.Resources.Font
                    = (DOMAIN old.Resources.Font) \cup {"VF1"}
             /\ new.Resources.Font["VF1"] = "font_obj"
             /\ \A n \in (DOMAIN old.Resources.Font) \ {"VF1"} :
                    new.Resources.Font[n] = old.Resources.Font[n]

C7_OverlayOnlyAppends ==
    [][pc = "overlay" =>
          /\ DOMAIN doc' = DOMAIN doc
          /\ \A i \in DOMAIN doc : OverlayFrame(i)]_vars

C7_Witness ==
    /\ OverlayWritten
    /\ \E i, j \in DOMAIN pages :
          /\ pages[i].char_boxes = <<>>
          /\ doc[i].Contents.kind = "stream"
          /\ ~doc[i].Resources.present
          /\ pages[j].char_boxes # <<>>
          /\ doc[j].Contents.kind = "array"
          /\ Len(doc[j].Contents.items) = 3
          /\ DOMAIN doc[j].Resources.Font = {"F0", "VF1"}

(* ------------------------------------------------------------------ *)
(* The glyph loop read back from its log                               *)
(* ------------------------------------------------------------------ *)
\* (page_index, y1, x1) of a <= (page_index, y1, x1) of b
TieKeyLeq(a, b) ==
    \/ a.page_idx < b.page_idx
    \/ a.page_idx = b.page_idx /\ a.box.y1 < b.box.y1
    \/ a.page_idx = b.page_idx /\ a.box.y1 = b.box.y1 /\ a.box.x1 <= b.box.x1

\* the path data the tracers produced for a logged glyph, if any
TracedPaths(e) ==
    IF image_to_svg(e.trace).status = "svg" THEN image_to_svg(e.trace).paths
    ELSE <<>>

\* the traced path data holds a command outside M m L l C c Q q Z z
HasUnsupported(e) ==
    \E p \in DOMAIN TracedPaths(e) :
        \E t \in DOMAIN TracedPaths(e)[p] :
            /\ TracedPaths(e)[p][t].k = "cmd"
            /\ TracedPaths(e)[p][t].c \notin CMDS

\* what glyph_to_pdf_ops did for a logged glyph
Outcome(e) == glyph_to_pdf_ops(e.img, e.trace)

Dropped(e) == Outcome(e) = [err |-> "", ops |-> <<>>]

\* vectorising the logged glyph failed: nothing traced, or no ops, or raised
VectoriseFailed(e) == Outcome(e).err # "" \/ Outcome(e).ops = <<>>

\* C8: the representative of every codepoint is a box of maximal area, and
\* among the boxes of maximal area the one with the smallest
\* (page_index, y1, x1), whatever the insertion order of the boxes
C8_RepresentativeTieBreak ==
    \A k \in DOMAIN vlog :
        LET inst == glyphs[k].instances
            rep == vlog[k].rep
        IN  /\ \E i \in DOMAIN inst : inst[i] = rep
            /\ \A i \in DOMAIN inst :
                  /\ Area(rep) >= Area(inst[i])
                  /\ Area(inst[i]) = Area(rep) => TieKeyLeq(rep, inst[i])

\* C9: a glyph whose traced path data holds a command outside
\* M m L l C c Q q Z z is dropped: glyph_to_pdf_ops returns no path ops and
\* the codepoint is not entered in the font map
C9_UnsupportedCommandDropsGlyph ==
    \A k \in DOMAIN vlog :
        HasUnsupported(vlog[k]) =>
            /\ Dropped(vlog[k])
            /\ vlog[k].char \notin Keys(char_glyphs)

\* C10: a failure while vectorising one glyph only omits its codepoint from
\* the font map: the run is never aborted and the glyph loop goes on to the
\* next codepoint
C10_GlyphFailureAbsorbed ==
    \A k \in DOMAIN vlog :
        VectoriseFailed(vlog[k]) =>
            /\ pc # "crashed"
            /\ vlog[k].char \notin Keys(char_glyphs)
            /\ pc = "vectorise" => cursor > k

(* ------------------------------------------------------------------ *)
(* The outcome of a run of process                                     *)
(* ------------------------------------------------------------------ *)
\* process has returned or an exception has left it
RunEnded == pc \notin {"extract", "collect", "vectorise", "font", "overlay",
                       "save"}

\* no page of the document carries an overlay
NoOverlay ==
    \A i \in DOMAIN doc :
        doc[i].Contents.kind = "stream" /\ ~doc[i].Resources.present

\* every page with boxes carries its overlay and the font resource
Overlaid ==
    \A i \in DOMAIN doc :
        pages[i].char_boxes # <<>> =>
            /\ doc[i].Contents.kind = "array"
            /\ doc[i].Resources.has_font

FallbackOutcome ==
    /\ pc = "fallback"
    /\ char_glyphs = <<>>
    /\ font = NoFont /\ NoOverlay /\ ~saved

VectorOutcome ==
    /\ pc = "done"
    /\ char_glyphs # <<>>
    /\ font # NoFont /\ Overlaid /\ saved

\* C11: a run that got past rasterisation ends in exactly one of two ways:
\* with no glyph vectorised the fallback is invoked and no font is built, no
\* overlay written and nothing saved; with a glyph vectorised the font is
\* built, then the overlay written, then the PDF saved, and the fallback is
\* not invoked
C11_FallbackOrVectorOutcome ==
    /\ RunEnded => (FallbackOutcome \/ VectorOutcome)
    /\ ~(FallbackOutcome /\ VectorOutcome)
    /\ pc = "fallback" => char_glyphs = <<>>
    /\ saved => Overlaid /\ font # NoFont
    /\ ~NoOverlay => font # NoFont
    /\ font # NoFont => char_glyphs # <<>> /\ pc # "fallback"

\* C16: every CharBox attached to a page lies inside the page, is not
\* empty, and has a codepoint that is not whitespace
C16_BoxesInsidePage ==
    \A i \in DOMAIN pages :
        \A k \in DOMAIN pages[i].char_boxes :
            LET b == pages[i].char_boxes[k]
            IN  /\ 0 <= b.x1 /\ b.x1 < b.x2 /\ b.x2 <= pages[i].width_px
                /\ 0 <= b.y1 /\ b.y1 < b.y2 /\ b.y2 <= pages[i].height_px
                /\ b.char \notin Whitespace

\* the entry of the font map for a codepoint that has one
EntryOf(char) ==
    char_glyphs[CHOOSE j \in DOMAIN char_glyphs : char_glyphs[j].char = char]

\* C17: every glyph of the font map has an advance width greater than 0,
\* also after rounding to 3 decimals, and equal to EM * w_px / h_px for the
\* width and height of the crop whose path ops were transcoded
C17_AdvanceFromCrop ==
    \A k \in DOMAIN vlog :
        vlog[k].char \in Keys(char_glyphs) =>
            /\ EntryOf(vlog[k].char).adv > 0
            /\ Round3(EntryOf(vlog[k].char).adv) > 0
            /\ vlog[k].img.h > 0
            /\ EntryOf(vlog[k].char).adv
                   = (EM * 100000 * vlog[k].img.w) \div vlog[k].img.h

(* ------------------------------------------------------------------ *)
(* The fallback read back from its ocrmypdf runs                       *)
(* ------------------------------------------------------------------ *)
\* the output of a run reports the tool missing
Reports(tool, txt) ==
    /\ \E f \in txt : Lower(f) = tool
    /\ \E f \in txt : Lower(f) \in MissingPhrases

LastRun == runs[Len(runs)]

\* C12: when the vector pipeline has handed over to the fallback, the exit
\* code of the vectorscan process equals the exit code of the fallback
\* child, which equals the exit code of the last ocrmypdf attempt
C12_ExitCodePropagated ==
    vs_exit.exited =>
        /\ vs_exit.code = engine_exit.code
        /\ engine_exit.code = LastRun.rc

\* C13: ocrmypdf runs at most three times and no run follows one that
\* exited 0; the run without --clean only follows a failed run that had
\* --clean and reported unpaper missing, the run with --optimize 1 only a
\* failed run that reported pngquant missing; each retry happens at most
\* once and a later command line keeps what an earlier retry changed
C13_BoundedDegradingRetries ==
    /\ Len(runs) <= 3
    /\ runs # <<>> => runs[1].site = "first" /\ runs[1].cmd = FirstCmd(args)
    /\ \A k \in 2..Len(runs) :
          /\ runs[k - 1].rc # 0
          /\ runs[k].site \in {"no_clean", "optimize"}
          /\ runs[k].site = "no_clean" =>
                /\ runs[k - 1].cmd.clean
                /\ Reports("unpaper", runs[k - 1].txt)
                /\ runs[k].cmd = [runs[k - 1].cmd EXCEPT !.clean = FALSE]
          /\ runs[k].site = "optimize" =>
                /\ Reports("pngquant", runs[k - 1].txt)
                /\ runs[k].cmd = [runs[k - 1].cmd EXCEPT !.optimize = "1"]
    /\ \A j, k \in DOMAIN runs :
          /\ (j # k /\ runs[j].site = runs[k].site) => FALSE
          /\ (j < k /\ ~runs[j].cmd.clean) => ~runs[k].cmd.clean
          /\ (j < k /\ runs[j].site = "optimize") => runs[k].cmd.optimize = "1"
    /\ engine_exit.exited /\ engine_exit.code = 0 => LastRun.rc = 0

\* three runs, the second without --clean, the third with --optimize 1 and
\* still without --clean, and the third succeeded
C13_Witness ==
    /\ Len(runs) = 3
    /\ runs[1].cmd.clean /\ runs[1].cmd.optimize = "3"
    /\ runs[2].site = "no_clean" /\ ~runs[2].cmd.clean
    /\ runs[3].site = "optimize" /\ ~runs[3].cmd.clean
    /\ runs[3].cmd.optimize = "1"
    /\ runs[3].rc = 0
    /\ vs_exit = Exited(0)

(* ------------------------------------------------------------------ *)
(* status.json read back as the sequence of its writes                 *)
(* ------------------------------------------------------------------ *)
Terminal(st) == st.state \in {"done", "error"}

StatesWritten == [k \in DOMAIN status |-> status[k].state]

IsPrefix(a, b) == Len(a) <= Len(b) /\ \A k \in DOMAIN a : a[k] = b[k]

\* C14: the states written to status.json are queued, running, then one
\* terminal state; the terminal state is done exactly when the engine child
\* exited 0 and the output PDF exists when run_job looks, otherwise error
\* with the exit code of the child; nothing is written after it
C14_StatusSequence ==
    /\ [](\/ IsPrefix(StatesWritten, <<"queued", "running", "done">>)
          \/ IsPrefix(StatesWritten, <<"queued", "running", "error">>))
    /\ [][/\ Len(status) = 3 => status' = status
          /\ (Len(status) = 2 /\ status' # status) =>
                /\ engine_exit.exited
                /\ Len(status') = 3
                /\ Terminal(status'[3])
                /\ status'[3].state = "done" <=>
                       (engine_exit.code = 0 /\ out_exists)
                /\ status'[3].state = "done" => ~status'[3].has_code
                /\ status'[3].state = "error" =>
                       /\ status'[3].has_code
                       /\ status'[3].exit_code = engine_exit.code]_vars

\* the first run failed for want of unpaper, the second, without --clean,
\* succeeded, and the job is done
C14_Witness ==
    /\ Len(runs) = 2
    /\ runs[1].rc # 0 /\ Reports("unpaper", runs[1].txt)
    /\ runs[2].site = "no_clean" /\ ~runs[2].cmd.clean /\ runs[2].rc = 0
    /\ engine_exit = Exited(0)
    /\ StatesWritten = <<"queued", "running", "done">>

\* C15: a job that was written as running is eventually written as done or
\* error, also when the engine child never exits
C15_RunningReachesTerminal ==
    (Len(status) >= 2) ~> (Len(status) = 3 /\ Terminal(status[3]))

(* ------------------------------------------------------------------ *)
(* Path ops read back as a PDF consumer does, and SVG path data as an  *)
(* SVG path interpreter does                                           *)
(* ------------------------------------------------------------------ *)
\* glyph_to_pdf_ops returned a string
Returned == traced # NoResult /\ traced.err = "" /\ traced.ops # <<>>

\* the operator of a line of path ops
OpOf(line) == line[Len(line)]

\* C18: a returned path-ops string starts with a moveto, has after each
\* moveto a closepath before the next moveto or the end of the path, and
\* ends with its only fill operator
C18_PathOpsWellFormed ==
    Returned =>
        LET ops == traced.ops
            n == Len(ops)
        IN  /\ OpOf(ops[1]) = "m"
            /\ ops[n] = <<"f">>
            /\ \A k \in 1..(n - 1) : OpOf(ops[k]) # "f"
            /\ \A k \in 1..(n - 1) :
                  OpOf(ops[k]) = "m" =>
                      \E j \in (k + 1)..(n - 1) :
                          /\ OpOf(ops[j]) = "h"
                          /\ \A i \in (k + 1)..(j - 1) : OpOf(ops[i]) # "m"

\* the number of operands of one group of an SVG path command
SvgArity(c) ==
    IF c \in {"C", "c"} THEN 6 ELSE IF c \in {"Q", "q"} THEN 4 ELSE 2

\* a point (x / 3, y / 3) of the SVG frame in the glyph frame of the crop
GlyphPoint(x3, y3) ==
    <<fx(x3, 3, CropSample.h, EM), fy(y3, 3, CropSample.h, EM)>>

\* An SVG path interpreter on path data d from lexeme i on: c is the command
\* in force, done the number of its operand groups consumed, cur the
\* current point and start the start of the subpath, both in thirds of a
\* pixel. The result is the PDF segment list.
RECURSIVE SvgSegments(_, _, _, _, _, _, _)
SvgSegments(d, i, c, done, cur, start, out) ==
    IF i > Len(d) THEN out
    ELSE IF d[i].k = "cmd"
    THEN IF d[i].c \in {"Z", "z"}
         THEN SvgSegments(d, i + 1, d[i].c, 0, start, start,
                          Append(out, <<"h">>))
         ELSE SvgSegments(d, i + 1, d[i].c, 0, cur, start, out)
    ELSE LET rel == c \in {"m", "l", "c", "q"}
             P(k) == <<(IF rel THEN cur[1] ELSE 0) + 3 * d[i + 2 * k].n,
                       (IF rel THEN cur[2] ELSE 0) + 3 * d[i + 2 * k + 1].n>>
             last == P(SvgArity(c) \div 2 - 1)
             line ==
                 IF c \in {"C", "c"}
                 THEN GlyphPoint(P(0)[1], P(0)[2])
                          \o GlyphPoint(P(1)[1], P(1)[2])
                          \o GlyphPoint(P(2)[1], P(2)[2]) \o <<"c">>
                 ELSE IF c \in {"Q", "q"}
                 THEN GlyphPoint((cur[1] + 2 * P(0)[1]) \div 3,
                                 (cur[2] + 2 * P(0)[2]) \div 3)
                          \o GlyphPoint((P(1)[1] + 2 * P(0)[1]) \div 3,
                                        (P(1)[2] + 2 * P(0)[2]) \div 3)
                          \o GlyphPoint(P(1)[1], P(1)[2]) \o <<"c">>
                 ELSE GlyphPoint(P(0)[1], P(0)[2])
                          \o <<IF c \in {"M", "m"} /\ done = 0 THEN "m"
                               ELSE "l">>
         IN  SvgSegments(d, i + SvgArity(c), c, done + 1, last,
                         IF c \in {"M", "m"} /\ done = 0 THEN last
                         ELSE start,
                         Append(out, line))

\* C19: for path data of supported commands with complete operand groups
\* the ops are, in input order, one operator per segment (m, l, c, h) at the
\* glyph-frame transforms of the absolute points of an SVG path interpreter,
\* for which the current point after Z/z is the start of the closed subpath
C19_TranscodeFollowsSvg ==
    traced # NoResult =>
        /\ traced.err = ""
        /\ traced.ops = SvgSegments(path_d, 1, "M", 0, <<0, 0>>, <<0, 0>>,
                                    <<>>) \o << <<"f">> >>

====
